---- MODULE Spec2Model ----
(***************************************************************************)
(* A model of coilsnake/modules/eb/FontModule.py: the font module's ROM    *)
(* write pass (allocation, pointer table rebuild, relocation of every      *)
(* pointer reference), its project import with discovery of extra fonts,   *)
(* and the recursive project-version migration.                            *)
(*                                                                         *)
(* The ROM buffer is a map from the offset of every block written so far   *)
(* to that block (its length, what it holds, and how far into the written  *)
(* value it starts once a later write cut its head off).  Bytes no block   *)
(* covers are the untouched bytes of the ROM file.  Two buffers with the   *)
(* same map are byte-identical.                                            *)
(***************************************************************************)
EXTENDS Integers, Sequences, FiniteSets, TLC

VARIABLES
    fonts,             \* self.fonts: sequence of fonts (index i of the code is i+1 here)
    credits_font,      \* self.credits_font
    table,             \* self.font_pointer_table: [num_rows, values]
    mem,               \* the ROM buffer
    free,              \* the ROM's allocator: its unallocated ranges
    free0,             \* the unallocated ranges the allocator is reset to
    images,            \* project: image resources by name
    widths,            \* project: width resources by name
    pc,                \* where the running operation stands ("idle": none runs)
    i,                 \* loop variable of the running operation
    new_table_offset,  \* local of write_to_rom
    result,            \* how the last finished operation ended
    calls,             \* number of operations started on this module instance
    pass,              \* record of the running (or last) write pass
    prev,              \* record of the write pass before it
    import,            \* record of the running (or last) project import
    upg                \* the migration walk: [old_version, new_version, first, state, log]

vars == <<fonts, credits_font, table, mem, free, free0, images, widths, pc, i,
          new_table_offset, result, calls, pass, prev, import, upg>>

-----------------------------------------------------------------------------
(* Bounds of the model *)

\* operations started on one module instance
MaxCalls == 3
\* the extra font files 5 .. 4+MaxExtra are there or not in every combination
MaxExtra == 2

-----------------------------------------------------------------------------
(* Module constants, FontModule.py lines 15-67 *)

FONT_POINTER_TABLE_OFFSET == \hC3F054
FONT_POINTER_TABLE_ENTRY_SIZE == 12
FONT_FILENAMES == <<"0", "1", "3", "4", "2">>
MAX_FONT_INDEX == 64
CREDITS_GRAPHICS_ASM_POINTER == \h4f1a7
CREDITS_PALETTES_ADDRESS == \h21e914

FREE_RANGES ==
    << <<\h21e528, \h21e913>>,   \* Credits font graphics
       <<\h210c7a, \h212ef9>>,   \* Fonts 0, 2, 3, and 4
       <<\h201359, \h201fb8>> >> \* Font 1

XlPointerReference(offset, pointer_offset) ==
    [kind |-> "xl", offset |-> offset, pointer_offset |-> pointer_offset]

AsmPointerReference(offset) ==
    [kind |-> "asm", offset |-> offset, pointer_offset |-> 0]

FONT_POINTER_TABLE_REFERENCES ==
    << XlPointerReference(\h43E7E, 0),
       XlPointerReference(\h43E84, 2),
       AsmPointerReference(\h43E98),
       XlPointerReference(\h440F8, 0),
       XlPointerReference(\h440FE, 2),
       XlPointerReference(\h4420E, 0),
       XlPointerReference(\h44214, 2),
       XlPointerReference(\h44284, 0),
       XlPointerReference(\h4428A, 2),
       AsmPointerReference(\h4433F),
       AsmPointerReference(\h44512),
       AsmPointerReference(\h44761),
       AsmPointerReference(\h44EF4),
       AsmPointerReference(\h4502D),
       AsmPointerReference(\h450EC),
       AsmPointerReference(\h48292),
       AsmPointerReference(\h499AE),
       AsmPointerReference(\h4E593),
       AsmPointerReference(\h4EDB6),
       XlPointerReference(\h2F0205, 0),
       XlPointerReference(\h2F020B, 2),
       \* Font 0
       XlPointerReference(\h44363, 4),
       XlPointerReference(\h44369, 6),
       \* Font 2
       XlPointerReference(\h47D42, FONT_POINTER_TABLE_ENTRY_SIZE * 2 + 4),
       XlPointerReference(\h47D48, FONT_POINTER_TABLE_ENTRY_SIZE * 2 + 6),
       \* Font 3
       XlPointerReference(\h44551, FONT_POINTER_TABLE_ENTRY_SIZE * 3 + 4),
       XlPointerReference(\h44557, FONT_POINTER_TABLE_ENTRY_SIZE * 3 + 6) >>

NumRefs == Len(FONT_POINTER_TABLE_REFERENCES)

-----------------------------------------------------------------------------
(* Address translation (coilsnake.util.eb.pointer, not part of this file) *)

from_snes_address(address) ==
    IF address >= \hC00000 THEN address - \hC00000 ELSE address

to_snes_address(offset) ==
    IF offset >= \h400000 THEN offset ELSE offset + \hC00000

-----------------------------------------------------------------------------
(* The ROM buffer *)

Block(size, kind, data) == [size |-> size, kind |-> kind, data |-> data, skip |-> 0]

\* Overwrite bytes off .. off+size-1 by a block.  Earlier blocks under it are
\* dropped, and cut down when it covers them only in part.
Write(m, off, size, kind, data) ==
    LET end    == off + size
        keep   == {o \in DOMAIN m : o + m[o].size <= off \/ o >= end}
        lefts  == {o \in DOMAIN m : o < off /\ o + m[o].size > off}
        rights == {o \in DOMAIN m : o < end /\ o + m[o].size > end}
        dom    == keep \cup lefts \cup {off} \cup {end : o \in rights}
    IN  [a \in dom |->
            IF a = off THEN Block(size, kind, data)
            ELSE IF a \in lefts THEN [m[a] EXCEPT !.size = off - a]
            ELSE IF a \in keep THEN m[a]
            ELSE LET o == CHOOSE o \in rights : TRUE
                 IN  [m[o] EXCEPT !.size = o + m[o].size - end,
                                  !.skip = m[o].skip + (end - o)]]

\* What a reader finds at off when it expects a block of the given kind:
\* the value written there, or <<>> when no such block starts there.
ReadAt(m, off, kind) ==
    IF off \in DOMAIN m /\ m[off].kind = kind /\ m[off].skip = 0
    THEN m[off].data ELSE <<>>

-----------------------------------------------------------------------------
(* The allocator, rom.allocate(size): first fit over the unallocated ranges *)

RECURSIVE FirstFit(_, _, _)
FirstFit(fr, size, n) ==
    IF n > Len(fr) THEN 0
    ELSE IF fr[n][2] - fr[n][1] + 1 >= size THEN n
    ELSE FirstFit(fr, size, n + 1)

DropRange(fr, n) == [k \in 1..(Len(fr) - 1) |-> IF k < n THEN fr[k] ELSE fr[k + 1]]

\* [ok, offset, free]: ok = FALSE stands for the allocation error
allocate(fr, size) ==
    LET n == FirstFit(fr, size, 1)
    IN  IF n = 0 THEN [ok |-> FALSE, offset |-> 0, free |-> fr]
        ELSE [ok |-> TRUE, offset |-> fr[n][1],
              free |-> IF fr[n][1] + size > fr[n][2]
                       THEN DropRange(fr, n)
                       ELSE [fr EXCEPT ![n] = <<fr[n][1] + size, fr[n][2]>>]]

-----------------------------------------------------------------------------
(* Pointer references, AsmPointerReference.write and XlPointerReference.write *)

\* the address bytes of a patch site hold (address + pointer_offset), 24 bits wide
PointerWrite(m, r, address) ==
    Write(m, r.offset, 3, r.kind, <<(address + r.pointer_offset) % (2^24)>>)

\* the address a patch site holds; -1 when nothing readable is there
PointerRead(m, r) ==
    IF ReadAt(m, r.offset, r.kind) = <<>> THEN -1 ELSE ReadAt(m, r.offset, r.kind)[1]

-----------------------------------------------------------------------------
(* Fonts, EbFont and EbCreditsFont *)

NoWidths == [c \in 1..128 |-> 0]

\* EbFont(num_characters, tile_width, tile_height): blank tiles, zero widths
EbFont(num_characters, tile_width, tile_height) ==
    [num_characters |-> num_characters, tile_width |-> tile_width,
     tile_height |-> tile_height, gfx |-> 0, widths |-> NoWidths]

EbCreditsFont == [gfx |-> 0]

TilesetSize(font) ==
    font.num_characters * ((font.tile_height * font.tile_width) \div 8)

WidthsSize(font) == font.num_characters

\* font.to_block(block): allocate the tileset, allocate the widths, write both.
\* [ok, mem, free, graphics_offset, widths_offset]
FontToBlock(font, m, fr) ==
    LET g == allocate(fr, TilesetSize(font))
        w == allocate(g.free, WidthsSize(font))
    IN  IF ~g.ok \/ ~w.ok
        THEN [ok |-> FALSE, mem |-> m, free |-> IF g.ok THEN g.free ELSE fr,
              graphics_offset |-> 0, widths_offset |-> 0]
        ELSE [ok |-> TRUE,
              mem |-> Write(Write(m, g.offset, TilesetSize(font), "tileset",
                                  <<font.tile_width, font.tile_height, font.gfx>>),
                            w.offset, WidthsSize(font), "widths", font.widths),
              free |-> w.free,
              graphics_offset |-> g.offset, widths_offset |-> w.offset]

\* font.from_block(block, tileset_offset, character_widths_offset): the font
\* decoded from what the two offsets hold (gfx -1: bytes that are no tileset
\* of this geometry)
FontFromBlock(font, m, tileset_offset, character_widths_offset) ==
    LET t == ReadAt(m, tileset_offset, "tileset")
        w == ReadAt(m, character_widths_offset, "widths")
    IN  [font EXCEPT
            !.gfx = IF t # <<>> /\ t[1] = font.tile_width /\ t[2] = font.tile_height
                    THEN t[3] ELSE -1,
            !.widths = IF w # <<>> THEN w ELSE [c \in 1..128 |-> 255]]

\* length of the compressed credits tileset: it depends on the tiles
CreditsBlockSize(c) == 1000 + 2 * c.gfx

\* credits_font.to_block(block, tileset_asm_pointer_offset, palette_offset)
CreditsToBlock(c, m, fr, tileset_asm_pointer_offset, palette_offset) ==
    LET a == allocate(fr, CreditsBlockSize(c))
    IN  IF ~a.ok THEN [ok |-> FALSE, mem |-> m, free |-> fr]
        ELSE [ok |-> TRUE,
              mem |-> Write(
                        PointerWrite(
                          Write(m, a.offset, CreditsBlockSize(c), "credits", <<c.gfx>>),
                          AsmPointerReference(tileset_asm_pointer_offset),
                          to_snes_address(a.offset)),
                        palette_offset, 16, "palette", <<c.gfx>>),
              free |-> a.free]

\* credits_font.from_block(block, tileset_asm_pointer_offset, palette_offset)
CreditsFromBlock(m, tileset_asm_pointer_offset, palette_offset) ==
    LET p == PointerRead(m, AsmPointerReference(tileset_asm_pointer_offset))
        t == ReadAt(m, from_snes_address(p), "credits")
    IN  [gfx |-> IF p >= 0 /\ t # <<>> THEN t[1] ELSE -1]

-----------------------------------------------------------------------------
(* The pointer table, eb_table_from_offset(FONT_POINTER_TABLE_OFFSET) *)

ZeroRow == <<0, 0, 0, 0>>
\* what a row read past the end of a stored table decodes to
JunkRow == <<\hFFFFFF, \hFFFFFF, \hFFFF, \hFFFF>>

NewTable == [num_rows |-> 5, values |-> [k \in 1..5 |-> ZeroRow]]

\* the fields of the rows one after the other
Flatten(rows) ==
    [k \in 1..(4 * Len(rows)) |-> rows[((k - 1) \div 4) + 1][((k - 1) % 4) + 1]]

\* table.from_block(block, offset): num_rows rows read from offset
TableFromBlock(m, offset, num_rows) ==
    LET d == ReadAt(m, offset, "table")
    IN  [k \in 1..num_rows |->
            IF 4 * k <= Len(d)
            THEN <<d[4 * k - 3], d[4 * k - 2], d[4 * k - 1], d[4 * k]>>
            ELSE JunkRow]

\* table.to_block(block, offset): the first num_rows rows written at offset
TableToBlock(t, m, offset) ==
    Write(m, offset, t.num_rows * FONT_POINTER_TABLE_ENTRY_SIZE, "table",
          Flatten(SubSeq(t.values, 1, t.num_rows)))

-----------------------------------------------------------------------------
(* The project's resources, resource_open(name, extension) *)

DigitStr == <<"0", "1", "2", "3", "4", "5", "6", "7", "8", "9">>

\* str(n)
RECURSIVE Str(_)
Str(n) == IF n < 10 THEN DigitStr[n + 1] ELSE Str(n \div 10) \o DigitStr[(n % 10) + 1]

ImageName(font_filename) == "Fonts/" \o font_filename
WidthsName(font_filename) == "Fonts/" \o font_filename \o "_widths"
CreditsName == "Fonts/credits"

\* lines 70-74: the fonts a module is constructed with
ConstructedFonts ==
    << EbFont(128, 16, 16),
       EbFont(128, 16, 16),
       EbFont(128, 8, 16),
       EbFont(128, 8, 8),
       EbFont(128, 16, 16) >>

\* font.image_size(): sixteen characters a row
ImageSize(font) == <<16 * font.tile_width, (font.num_characters \div 16) * font.tile_height>>

\* the pixels of an image the model keeps: one every SampleX columns and
\* SampleY rows
SampleX == 64
SampleY == 16
Lattice(w, h) ==
    {<<x * SampleX, y * SampleY>> :
        x \in 0..((w - 1) \div SampleX), y \in 0..((h - 1) \div SampleY)}

\* the font that font file number n belongs to
FontOfFile(n) ==
    IF \E k \in 1..Len(FONT_FILENAMES) : FONT_FILENAMES[k] = Str(n)
    THEN ConstructedFonts[CHOOSE k \in 1..Len(FONT_FILENAMES) : FONT_FILENAMES[k] = Str(n)]
    ELSE EbFont(128, 16, 16)

\* the image the project holds for font file number n, drawn for that many
\* characters: its glyphs (id), its size and its pixels (palette indices)
ProjectImage(n, chars) ==
    LET size == ImageSize([FontOfFile(n) EXCEPT !.num_characters = chars])
    IN  [valid |-> TRUE, id |-> 10 + n, w |-> size[1], h |-> size[2],
         px |-> [p \in Lattice(size[1], size[2]) |->
                    ((p[1] \div SampleX) + (p[2] \div SampleY) + n) % 2]]

\* the width file the project holds for font file number n: a sparse one, one
\* with characters from 96 up, a full one
WidthsDict(n, variant) ==
    CASE variant = 1 -> (0 :> n + 1) @@ (10 :> 3)
      [] variant = 2 -> (0 :> n + 1) @@ (96 :> 4) @@ (127 :> 9)
      [] OTHER -> [c \in 0..127 |-> 1 + ((c + n) % 7)]

ProjectWidths(n, parses, variant) == [valid |-> parses, dict |-> WidthsDict(n, variant)]

\* a project: font file numbers with an image, with a width file, those whose
\* width file does not parse, whether the credits image is there, how many
\* characters the images are drawn for and which width files it has
ProjectOf(img, wid, bad, credits, chars, variant) ==
    [images |->
        [name \in {ImageName(Str(n)) : n \in img} \cup (IF credits THEN {CreditsName} ELSE {}) |->
            IF name = CreditsName THEN [valid |-> TRUE, id |-> 2]
            ELSE ProjectImage(CHOOSE n \in img : ImageName(Str(n)) = name, chars)],
     widths |->
        [name \in {WidthsName(Str(n)) : n \in wid} |->
            LET w == CHOOSE n \in wid : WidthsName(Str(n)) = name
            IN  ProjectWidths(w, w \notin bad, variant)]]

Project(img, wid, bad, credits) == ProjectOf(img, wid, bad, credits, 128, 1)

ExtraFiles == 5..(4 + MaxExtra)

\* every way the extra font files can be there: each one whole, absent, or
\* an image without its width file
ExtraStates == [ExtraFiles -> {"whole", "absent", "image"}]

Projects ==
    {Project(0..4 \cup {n \in ExtraFiles : st[n] # "absent"},
             0..4 \cup {n \in ExtraFiles : st[n] = "whole"}, {}, TRUE) : st \in ExtraStates}
    \cup {Project(0..MAX_FONT_INDEX, 0..MAX_FONT_INDEX, {}, TRUE),
          Project(0..6, 0..6, {5}, TRUE),
          Project(0..6, 0..6, {6}, TRUE),
          Project({0, 1, 2, 4, 5}, 0..5, {}, TRUE),
          Project(0..5, 0..5, {}, FALSE)}

\* the widths table of a font loaded from a width file: absent keys are 0
TableOfDict(dict) == [c \in 1..128 |-> IF (c - 1) \in DOMAIN dict THEN dict[c - 1] ELSE 0]

\* Whether font.from_files(image_file, widths_file) on the two resources
\* of that file name succeeds: both open and both parse
Loadable(img, wid, font_filename) ==
    /\ ImageName(font_filename) \in DOMAIN img
    /\ WidthsName(font_filename) \in DOMAIN wid
    /\ img[ImageName(font_filename)].valid
    /\ wid[WidthsName(font_filename)].valid

\* font.from_files(image_file, widths_file, ...)
FontFromFiles(font, img, wid, font_filename) ==
    [font EXCEPT !.gfx = img[ImageName(font_filename)].id,
                 !.widths = TableOfDict(wid[WidthsName(font_filename)].dict)]

-----------------------------------------------------------------------------
(* The ROM as shipped: the table at its fixed offset, every reference *)
(* pointing at it, the five fonts and the credits font where the free   *)
(* ranges say they are.                                                 *)

OrigWidthsOffset == <<\h210c7a, \h201359, \h2118da, \h211f3a, \h21229a>>
OrigGraphicsOffset == <<\h210cda, \h2013b9, \h21193a, \h211f9a, \h2122fa>>
OrigTileSize == << <<16, 16>>, <<16, 16>>, <<8, 16>>, <<8, 8>>, <<16, 16>> >>

OrigRow(k) ==
    <<to_snes_address(OrigWidthsOffset[k]), to_snes_address(OrigGraphicsOffset[k]),
      (OrigTileSize[k][1] * OrigTileSize[k][2]) \div 8, OrigTileSize[k][2]>>

Placed(off, block) == [off |-> off, block |-> block]

\* the blocks of the shipped ROM; no two overlap
OriginalBlocks ==
    {Placed(OrigWidthsOffset[k], Block(96, "widths", [c \in 1..128 |-> 100 + k])) : k \in 1..5}
    \cup {Placed(OrigGraphicsOffset[k],
                 Block(96 * ((OrigTileSize[k][1] * OrigTileSize[k][2]) \div 8), "tileset",
                       <<OrigTileSize[k][1], OrigTileSize[k][2], 100 + k>>)) : k \in 1..5}
    \cup {Placed(FONT_POINTER_TABLE_REFERENCES[k].offset,
                 Block(3, FONT_POINTER_TABLE_REFERENCES[k].kind,
                       <<FONT_POINTER_TABLE_OFFSET + FONT_POINTER_TABLE_REFERENCES[k].pointer_offset>>))
           : k \in 1..NumRefs}
    \cup {Placed(from_snes_address(FONT_POINTER_TABLE_OFFSET),
                 Block(5 * FONT_POINTER_TABLE_ENTRY_SIZE, "table",
                       Flatten([k \in 1..5 |-> OrigRow(k)]))),
          Placed(FREE_RANGES[1][1],
                 Block(FREE_RANGES[1][2] - FREE_RANGES[1][1] + 1, "credits", <<1>>)),
          Placed(CREDITS_GRAPHICS_ASM_POINTER,
                 Block(3, "asm", <<to_snes_address(FREE_RANGES[1][1])>>)),
          Placed(CREDITS_PALETTES_ADDRESS, Block(16, "palette", <<1>>))}

OriginalRom ==
    [o \in {p.off : p \in OriginalBlocks} |->
        (CHOOSE p \in OriginalBlocks : p.off = o).block]

\* the expanded part of the ROM, past the end of the shipped file
ExpandedArea(size) == <<\h300000, \h300000 + size - 1>>

\* what the allocator may hold when the module's turn comes: the module's
\* own ranges with or without an expanded area, or an expanded area alone
\* that is too small for the first font, for the table after five fonts,
\* or for the credits font after them
Allocators ==
    { FREE_RANGES,
      FREE_RANGES \o <<ExpandedArea(\h100000)>>,
      <<ExpandedArea(4000)>>,
      <<ExpandedArea(16000)>>,
      <<ExpandedArea(16100)>> }

-----------------------------------------------------------------------------
(* FontModule.__init__ and the state around it *)

Ev(e, a, b) == [e |-> e, a |-> a, b |-> b]

\* a write pass: how it stands, which call it is, the ROM, the allocator, the
\* fonts and the table's row count it began with, and what it did so far
NoPass == [state |-> "none", n |-> 0, mem0 |-> <<>>, free0 |-> <<>>, fonts |-> <<>>,
           credits |-> EbCreditsFont, rows0 |-> 0, events |-> <<>>]

\* a project import: which call it is, how many fonts the module had, the
\* font indices it probed, and how far it got
NoImport == [n |-> 0, fonts0 |-> 0, probed |-> <<>>, stage |-> "none"]

\* a migration walk: how it stands, which call it is, the version pair it was
\* called with (first, new_version), the version of the running frame, the
\* number of nested calls, the versions the frames were entered with, what
\* the walk did, the module and the project as the call and as the
\* version-5 step found them, and how many walks there were
NoWalk == [state |-> "idle", n |-> 0, count |-> 0, old_version |-> 0, new_version |-> 0, first |-> 0,
           depth |-> 0, visited |-> <<>>, log |-> <<>>,
           start |-> <<>>, before5 |-> <<>>]

\* the allocator and the project a module instance is run with: every
\* project with room for everything, and every allocator with the base
\* fonts alone and with two extra fonts
Setups ==
    {<<FREE_RANGES \o <<ExpandedArea(\h100000)>>, p>> : p \in Projects}
    \cup {<<a, Project(0..last, 0..last, {}, TRUE)>> : a \in Allocators, last \in {4, 6}}

Init ==
    /\ fonts = ConstructedFonts
    /\ credits_font = EbCreditsFont
    /\ table = NewTable
    /\ mem = OriginalRom
    /\ \E s \in Setups : free0 = s[1] /\ images = s[2].images /\ widths = s[2].widths
    /\ free = free0
    /\ pc = "idle"
    /\ i = 0
    /\ new_table_offset = 0
    /\ result = "none"
    /\ calls = 0
    /\ pass = NoPass
    /\ prev = NoPass
    /\ import = NoImport
    /\ upg = NoWalk

-----------------------------------------------------------------------------
(* write_to_rom, lines 92-119 *)

\* line 94: where the table is loaded from
TableLoadOffset == from_snes_address(FONT_POINTER_TABLE_OFFSET)

\* lines 99-100: rows appended until there is one per font
GrowRows(values, n) ==
    IF Len(values) < n
    THEN values \o [k \in 1..(n - Len(values)) |-> ZeroRow]
    ELSE values

\* RowFor without lines 108-109: the tile size is taken to be in the table already
RowForAddresses(row, font, graphics_offset, widths_offset) ==
    [row EXCEPT ![1] = to_snes_address(widths_offset),
                ![2] = to_snes_address(graphics_offset)]

\* RowFor without line 109
RowForNoHeight(row, font, graphics_offset, widths_offset) ==
    [row EXCEPT ![1] = to_snes_address(widths_offset),
                ![2] = to_snes_address(graphics_offset),
                ![3] = (font.tile_height * font.tile_width) \div 8]

\* lines 106-107 with the two addresses in each other's field
RowForSwapped(row, font, graphics_offset, widths_offset) ==
    [row EXCEPT ![1] = to_snes_address(graphics_offset),
                ![2] = to_snes_address(widths_offset),
                ![3] = (font.tile_height * font.tile_width) \div 8,
                ![4] = font.tile_height]

\* lines 106-109: the row of a font, from what to_block returned
RowFor(row, font, graphics_offset, widths_offset) ==
    [row EXCEPT ![1] = to_snes_address(widths_offset),
                ![2] = to_snes_address(graphics_offset),
                ![3] = (font.tile_height * font.tile_width) \div 8,
                ![4] = font.tile_height]

\* line 111 asking for the five rows of the shipped table
TableSizeBase(fs) == 5 * FONT_POINTER_TABLE_ENTRY_SIZE

\* line 111: the size asked for the relocated table
TableSize(fs) == Len(fs) * FONT_POINTER_TABLE_ENTRY_SIZE

\* line 114 patching with the address the table was loaded from
PatchAddressStale(offset) == FONT_POINTER_TABLE_OFFSET

\* line 114: the address every reference is patched with
PatchAddress(offset) == to_snes_address(offset)

\* lines 102-119 with the references patched before the table is allocated
WriteOrderPatchFirst == <<"w_font", "w_patch", "w_alloc", "w_store", "w_credits">>

\* lines 102-119 with the credits font written before the table is stored
WriteOrderCreditsEarly == <<"w_font", "w_alloc", "w_patch", "w_credits", "w_store">>

\* lines 102-119 with the rows filled in after the references are patched
WriteOrderRowsLate == <<"w_alloc", "w_patch", "w_font", "w_store", "w_credits">>

\* lines 102-119: the font loop and the statements after it, in their order
WriteOrder == <<"w_font", "w_alloc", "w_patch", "w_store", "w_credits">>

\* the statement after a stage of the pass; "done" after the last one
After(stage) ==
    LET k == CHOOSE k \in 1..Len(WriteOrder) : WriteOrder[k] = stage
    IN  IF k < Len(WriteOrder) THEN WriteOrder[k + 1] ELSE "done"

\* the stage is over: on to the next one, or the pass returns
Proceed(stage, events) ==
    /\ pc' = IF After(stage) = "done" THEN "idle" ELSE After(stage)
    /\ result' = IF After(stage) = "done" THEN "ok" ELSE result
    /\ pass' = [pass EXCEPT !.events = @ \o events,
                            !.state = IF After(stage) = "done" THEN "ok" ELSE @]

\* an allocation error leaves write_to_rom: nothing in it catches one
Fail(at) ==
    /\ pc' = "idle"
    /\ result' = "AllocationError"
    /\ pass' = [pass EXCEPT !.state = "failed", !.events = @ \o <<Ev("fail", at, 0)>>]

\* lines 93-100
WriteToRom_Begin ==
    /\ pc = "idle"
    /\ calls < MaxCalls
    /\ calls' = calls + 1
    /\ table' = [num_rows |-> Len(fonts),
                 values |-> GrowRows(TableFromBlock(mem, TableLoadOffset, table.num_rows),
                                     Len(fonts))]
    /\ prev' = pass
    /\ pass' = [state |-> "running", n |-> calls + 1, mem0 |-> mem, free0 |-> free,
                fonts |-> fonts, credits |-> credits_font, rows0 |-> table.num_rows,
                events |-> <<>>]
    /\ pc' = WriteOrder[1]
    /\ i' = 0
    /\ result' = "running"
    /\ UNCHANGED <<fonts, credits_font, mem, free, free0, images, widths,
                   new_table_offset, import, upg>>

\* lines 102-109, one round of the loop
WriteToRom_Font ==
    /\ pc = "w_font"
    /\ i < Len(fonts)
    /\ LET b == FontToBlock(fonts[i + 1], mem, free)
       IN  /\ free' = b.free
           /\ mem' = b.mem
           /\ IF b.ok
              THEN /\ table' = [table EXCEPT !.values[i + 1] =
                                   RowFor(@, fonts[i + 1], b.graphics_offset, b.widths_offset)]
                   /\ IF i + 1 < Len(fonts)
                      THEN /\ i' = i + 1
                           /\ pass' = [pass EXCEPT !.events = @ \o
                                           <<Ev("font", b.graphics_offset, b.widths_offset),
                                             Ev("row", i, 0)>>]
                           /\ UNCHANGED <<pc, result>>
                      ELSE /\ i' = 0
                           /\ Proceed("w_font", <<Ev("font", b.graphics_offset,
                                                      b.widths_offset),
                                                   Ev("row", i, 0)>>)
              ELSE /\ Fail(i)
                   /\ UNCHANGED <<table, i>>
    /\ UNCHANGED <<fonts, credits_font, free0, images, widths, new_table_offset,
                   calls, prev, import, upg>>

\* line 111
WriteToRom_Allocate ==
    /\ pc = "w_alloc"
    /\ LET a == allocate(free, TableSize(fonts))
       IN  /\ free' = a.free
           /\ IF a.ok
              THEN /\ new_table_offset' = a.offset
                   /\ Proceed("w_alloc", <<Ev("alloc", TableSize(fonts), a.offset)>>)
              ELSE /\ Fail(-1)
                   /\ UNCHANGED new_table_offset
    /\ i' = 0
    /\ UNCHANGED <<fonts, credits_font, table, mem, free0, images, widths,
                   calls, prev, import, upg>>

\* lines 113-114, one round of the loop
WriteToRom_Patch ==
    /\ pc = "w_patch"
    /\ i < NumRefs
    /\ mem' = PointerWrite(mem, FONT_POINTER_TABLE_REFERENCES[i + 1],
                           PatchAddress(new_table_offset))
    /\ IF i + 1 < NumRefs
       THEN /\ i' = i + 1
            /\ pass' = [pass EXCEPT !.events = @ \o <<Ev("patch", i, 0)>>]
            /\ UNCHANGED <<pc, result>>
       ELSE /\ i' = 0
            /\ Proceed("w_patch", <<Ev("patch", i, 0)>>)
    /\ UNCHANGED <<fonts, credits_font, table, free, free0, images, widths,
                   new_table_offset, calls, prev, import, upg>>

\* lines 116-117
WriteToRom_Store ==
    /\ pc = "w_store"
    /\ mem' = TableToBlock(table, mem, new_table_offset)
    /\ Proceed("w_store", <<Ev("store", new_table_offset, 0)>>)
    /\ UNCHANGED <<fonts, credits_font, table, free, free0, images, widths, i,
                   new_table_offset, calls, prev, import, upg>>

\* line 119, write_credits_font_to_rom (lines 158-162)
WriteToRom_Credits ==
    /\ pc = "w_credits"
    /\ LET c == CreditsToBlock(credits_font, mem, free,
                               CREDITS_GRAPHICS_ASM_POINTER, CREDITS_PALETTES_ADDRESS)
       IN  /\ free' = c.free
           /\ mem' = c.mem
           /\ IF c.ok
              THEN Proceed("w_credits", <<Ev("credits", 0, 0)>>)
              ELSE Fail(-2)
    /\ UNCHANGED <<fonts, credits_font, table, free0, images, widths, i,
                   new_table_offset, calls, prev, import, upg>>

\* The caller starts over with the allocator as it was handed to the module
ResetAllocator ==
    /\ pc = "idle"
    /\ free # free0
    /\ free' = free0
    /\ UNCHANGED <<fonts, credits_font, table, mem, free0, images, widths, pc, i,
                   new_table_offset, result, calls, pass, prev, import, upg>>

-----------------------------------------------------------------------------
(* read_from_project, lines 121-141 *)

Raise(error) ==
    /\ pc' = "idle"
    /\ result' = error

ReadFromProject_Begin ==
    /\ pc = "idle"
    /\ calls < MaxCalls
    /\ calls' = calls + 1
    /\ pc' = "p_base"
    /\ i' = 0
    /\ result' = "running"
    /\ import' = [n |-> calls + 1, fonts0 |-> Len(fonts), probed |-> <<>>, stage |-> "base"]
    /\ UNCHANGED <<fonts, credits_font, table, mem, free, free0, images, widths,
                   new_table_offset, pass, prev, upg>>

\* lines 123-126, one round of the loop over self.fonts
ReadFromProject_Base ==
    /\ pc = "p_base"
    /\ i < Len(fonts)
    /\ IF i + 1 > Len(FONT_FILENAMES)
       THEN Raise("IndexError") /\ UNCHANGED <<fonts, i, import>>
       ELSE IF ~Loadable(images, widths, FONT_FILENAMES[i + 1])
       THEN Raise("ResourceError") /\ UNCHANGED <<fonts, i, import>>
       ELSE /\ fonts' = [fonts EXCEPT ![i + 1] =
                            FontFromFiles(@, images, widths, FONT_FILENAMES[i + 1])]
            /\ i' = IF i + 1 < Len(fonts) THEN i + 1 ELSE 5
            /\ pc' = IF i + 1 < Len(fonts) THEN "p_base"
                     ELSE IF 5 < MAX_FONT_INDEX THEN "p_probe" ELSE "p_credits"
            /\ import' = IF i + 1 < Len(fonts) THEN import
                         ELSE [import EXCEPT !.stage = "probe"]
            /\ UNCHANGED result
    /\ UNCHANGED <<credits_font, table, mem, free, free0, images, widths,
                   new_table_offset, calls, pass, prev, upg>>

\* line 129 with MAX_FONT_INDEX itself in the range
AfterProbeInclusive(new_font_index) ==
    IF new_font_index + 1 <= MAX_FONT_INDEX
    THEN [pc |-> "p_probe", i |-> new_font_index + 1]
    ELSE [pc |-> "p_credits", i |-> new_font_index + 1]

\* lines 129 and 139: where the loop goes when the probed font was appended
AfterProbe(new_font_index) ==
    IF new_font_index + 1 < MAX_FONT_INDEX
    THEN [pc |-> "p_probe", i |-> new_font_index + 1]
    ELSE [pc |-> "p_credits", i |-> new_font_index + 1]

\* lines 136-137 going on with the next index (continue for break)
AfterFailedProbeContinue(new_font_index) == AfterProbe(new_font_index)

\* lines 136-137 letting the failure leave read_from_project
AfterFailedProbeRaise(new_font_index) == [pc |-> "idle", i |-> new_font_index]

\* lines 136-137: where the loop goes when a probed font does not load
AfterFailedProbe(new_font_index) == [pc |-> "p_credits", i |-> new_font_index]

\* lines 129-139, one round of the loop; i is new_font_index
ReadFromProject_Probe ==
    /\ pc = "p_probe"
    /\ LET to == IF Loadable(images, widths, Str(i)) THEN AfterProbe(i)
                 ELSE AfterFailedProbe(i)
       IN  /\ fonts' = IF Loadable(images, widths, Str(i))
                       THEN Append(fonts, FontFromFiles(EbFont(128, 16, 16),
                                                        images, widths, Str(i)))
                       ELSE fonts
           /\ pc' = to.pc
           /\ i' = to.i
           /\ import' = [import EXCEPT !.probed = Append(@, i),
                                       !.stage = IF to.pc = "p_probe" THEN @ ELSE "credits"]
    /\ UNCHANGED <<credits_font, table, mem, free, free0, images, widths,
                   new_table_offset, result, calls, pass, prev, upg>>

\* line 141, read_credits_font_from_project (lines 168-170)
ReadFromProject_Credits ==
    /\ pc = "p_credits"
    /\ IF CreditsName \in DOMAIN images /\ images[CreditsName].valid
       THEN /\ credits_font' = [gfx |-> images[CreditsName].id]
            /\ pc' = "idle"
            /\ result' = "ok"
       ELSE Raise("ResourceError") /\ UNCHANGED credits_font
    /\ import' = [import EXCEPT !.stage = "done"]
    /\ UNCHANGED <<fonts, table, mem, free, free0, images, widths, i,
                   new_table_offset, calls, pass, prev, upg>>

-----------------------------------------------------------------------------
(* read_from_rom, lines 81-90 *)

\* lines 82-83
ReadFromRom_Begin ==
    /\ pc = "idle"
    /\ calls < MaxCalls
    /\ calls' = calls + 1
    /\ table' = [table EXCEPT !.values =
                    TableFromBlock(mem, from_snes_address(FONT_POINTER_TABLE_OFFSET),
                                   table.num_rows)]
    /\ pc' = "r_font"
    /\ i' = 0
    /\ result' = "running"
    /\ UNCHANGED <<fonts, credits_font, mem, free, free0, images, widths,
                   new_table_offset, pass, prev, import, upg>>

\* line 87: where a row says the font's tileset is, font_pointer_table[i][1]
TilesetOffsetOf(row) == from_snes_address(row[2])

\* line 88: where a row says the font's widths are, font_pointer_table[i][0]
WidthsOffsetOf(row) == from_snes_address(row[1])

\* lines 84-88, one round of the loop
ReadFromRom_Font ==
    /\ pc = "r_font"
    /\ i < Len(fonts)
    /\ IF i + 1 > Len(FONT_FILENAMES) \/ i + 1 > Len(table.values)
       THEN Raise("IndexError") /\ UNCHANGED <<fonts, i>>
       ELSE /\ fonts' = [fonts EXCEPT ![i + 1] =
                            FontFromBlock(@, mem,
                                          TilesetOffsetOf(table.values[i + 1]),
                                          WidthsOffsetOf(table.values[i + 1]))]
            /\ i' = i + 1
            /\ pc' = IF i + 1 < Len(fonts) THEN "r_font" ELSE "r_credits"
            /\ UNCHANGED result
    /\ UNCHANGED <<credits_font, table, mem, free, free0, images, widths,
                   new_table_offset, calls, pass, prev, import, upg>>

\* line 90, read_credits_font_from_rom (lines 152-156)
ReadFromRom_Credits ==
    /\ pc = "r_credits"
    /\ credits_font' = CreditsFromBlock(mem, CREDITS_GRAPHICS_ASM_POINTER,
                                        CREDITS_PALETTES_ADDRESS)
    /\ pc' = "idle"
    /\ result' = "ok"
    /\ UNCHANGED <<fonts, table, mem, free, free0, images, widths, i,
                   new_table_offset, calls, pass, prev, import, upg>>

-----------------------------------------------------------------------------
(* write_to_project, lines 143-150 *)

\* the width file of a font: its nonzero widths by character
DictOfTable(t) == [c \in {c \in 0..127 : t[c + 1] # 0} |-> t[c + 1]]

\* font.to_files(image_file, ...): the image drawn from the font's tiles
FontToImage(font) ==
    LET size == ImageSize(font)
    IN  [valid |-> TRUE, id |-> font.gfx, w |-> size[1], h |-> size[2],
         px |-> [p \in Lattice(size[1], size[2]) |->
                    ((p[1] \div SampleX) + (p[2] \div SampleY) + font.gfx) % 2]]

Put(f, name, value) == [n \in DOMAIN f \cup {name} |-> IF n = name THEN value ELSE f[n]]

WriteToProject_Begin ==
    /\ pc = "idle"
    /\ calls < MaxCalls
    /\ calls' = calls + 1
    /\ pc' = "x_font"
    /\ i' = 0
    /\ result' = "running"
    /\ UNCHANGED <<fonts, credits_font, table, mem, free, free0, images, widths,
                   new_table_offset, pass, prev, import, upg>>

\* lines 144-148, one round of the loop
WriteToProject_Font ==
    /\ pc = "x_font"
    /\ i < Len(fonts)
    /\ IF i + 1 > Len(FONT_FILENAMES)
       THEN Raise("IndexError") /\ UNCHANGED <<images, widths, i>>
       ELSE /\ images' = Put(images, ImageName(FONT_FILENAMES[i + 1]),
                             FontToImage(fonts[i + 1]))
            /\ widths' = Put(widths, WidthsName(FONT_FILENAMES[i + 1]),
                             [valid |-> TRUE, dict |-> DictOfTable(fonts[i + 1].widths)])
            /\ i' = i + 1
            /\ pc' = IF i + 1 < Len(fonts) THEN "x_font" ELSE "x_credits"
            /\ UNCHANGED result
    /\ UNCHANGED <<fonts, credits_font, table, mem, free, free0,
                   new_table_offset, calls, pass, prev, import, upg>>

\* line 150, write_credits_font_to_project (lines 164-166)
WriteToProject_Credits ==
    /\ pc = "x_credits"
    /\ images' = Put(images, CreditsName, [valid |-> TRUE, id |-> credits_font.gfx])
    /\ pc' = "idle"
    /\ result' = "ok"
    /\ UNCHANGED <<fonts, credits_font, table, mem, free, free0, widths, i,
                   new_table_offset, calls, pass, prev, import, upg>>

-----------------------------------------------------------------------------
(* upgrade_project, lines 172-218 *)

\* the versions a migration is asked for, and the nested calls the
\* interpreter allows before it raises RecursionError
MaxVersion == 7
MaxDepth == 10
\* the migrations one module instance is asked for
MaxWalks == 1

\* lines 173-217 taking the version-5 test first
BranchExpandFirst(old_version, new_version) ==
    IF old_version = 5 THEN "expand"
    ELSE IF old_version = new_version THEN "return"
    ELSE IF old_version <= 2 THEN "credits"
    ELSE "advance"

\* lines 173-217: which branch a frame takes
Branch(old_version, new_version) ==
    IF old_version = new_version THEN "return"
    ELSE IF old_version = 5 THEN "expand"
    ELSE IF old_version <= 2 THEN "credits"
    ELSE "advance"

\* line 216 going on with the next version
AfterCreditsNextVersion(old_version) == old_version + 1

\* line 216: the version the walk resumes with once the credits font is there
AfterCredits(old_version) == 3

\* lines 204-206 setting every character from 96 up to 0
ExpandWidthsOverwrite(widths_dict) ==
    [c \in DOMAIN widths_dict \cup 96..127 |-> IF c \in 96..127 THEN 0 ELSE widths_dict[c]]

\* lines 204-206: the characters from 96 up that have no width get 0
ExpandWidths(widths_dict) ==
    [c \in DOMAIN widths_dict \cup 96..127 |->
        IF c \in DOMAIN widths_dict THEN widths_dict[c] ELSE 0]

\* lines 187-190 filling the canvas with palette index 0
ExpandImageZeroFill(image, new_image_w, new_image_h) ==
    [image EXCEPT !.w = new_image_w, !.h = new_image_h,
                  !.px = [p \in Lattice(new_image_w, new_image_h) |->
                             IF p[1] < image.w /\ p[2] < image.h THEN image.px[p] ELSE 0]]

\* lines 187-194: a canvas of the new size filled with palette index 1, the
\* image pasted at its origin
ExpandImage(image, new_image_w, new_image_h) ==
    [image EXCEPT !.w = new_image_w, !.h = new_image_h,
                  !.px = [p \in Lattice(new_image_w, new_image_h) |->
                             IF p[1] < image.w /\ p[2] < image.h THEN image.px[p] ELSE 1]]

WalkLog(events) == [upg EXCEPT !.log = @ \o events]

\* a frame raises: the walk is over
WalkRaise(walk, error) ==
    /\ upg' = [walk EXCEPT !.state = error]
    /\ pc' = "idle"
    /\ result' = error

\* the nested call self.upgrade_project(version, new_version, ...)
Recurse(walk, version) ==
    IF walk.depth >= MaxDepth
    THEN WalkRaise(walk, "RecursionError")
    ELSE /\ upg' = [walk EXCEPT !.old_version = version, !.depth = @ + 1,
                                !.visited = Append(@, version)]
         /\ pc' = "u_frame"
         /\ UNCHANGED result

\* the call: the caller names the project's version and the one to reach
Upgrade_Call ==
    /\ pc = "idle"
    /\ calls < MaxCalls
    /\ upg.count < MaxWalks
    /\ \E old_version \in 0..MaxVersion, new_version \in 0..MaxVersion :
          /\ old_version <= new_version
          /\ upg' = [state |-> "running", n |-> calls + 1, count |-> upg.count + 1,
                     old_version |-> old_version,
                     new_version |-> new_version, first |-> old_version, depth |-> 0,
                     visited |-> <<old_version>>, log |-> <<>>,
                     start |-> [credits_font |-> credits_font, fonts |-> fonts,
                                images |-> images, widths |-> widths],
                     before5 |-> <<>>]
    /\ calls' = calls + 1
    /\ pc' = "u_frame"
    /\ i' = 0
    /\ result' = "running"
    /\ UNCHANGED <<fonts, credits_font, table, mem, free, free0, images, widths,
                   new_table_offset, pass, prev, import>>

\* lines 173-174; every frame under it returns as well
Upgrade_Return ==
    /\ pc = "u_frame"
    /\ Branch(upg.old_version, upg.new_version) = "return"
    /\ upg' = [upg EXCEPT !.state = "returned"]
    /\ pc' = "idle"
    /\ result' = "ok"
    /\ UNCHANGED <<fonts, credits_font, table, mem, free, free0, images, widths, i,
                   new_table_offset, calls, pass, prev, import>>

\* line 175 into the loop of line 177
Upgrade_Expand ==
    /\ pc = "u_frame"
    /\ Branch(upg.old_version, upg.new_version) = "expand"
    /\ upg' = [upg EXCEPT !.before5 = [images |-> images, widths |-> widths]]
    /\ pc' = "u_font"
    /\ i' = 0
    /\ UNCHANGED <<fonts, credits_font, table, mem, free, free0, images, widths,
                   new_table_offset, result, calls, pass, prev, import>>

\* lines 177-208, one round of the loop, and line 210 after the last one
Upgrade_ExpandFont ==
    /\ pc = "u_font"
    /\ i < Len(fonts)
    /\ IF i + 1 > Len(FONT_FILENAMES)
       THEN WalkRaise(upg, "IndexError") /\ UNCHANGED <<images, widths, i>>
       ELSE LET image_resource_name == ImageName(FONT_FILENAMES[i + 1])
                widths_resource_name == WidthsName(FONT_FILENAMES[i + 1])
                new_image == ImageSize(fonts[i + 1])
                image_ok == /\ image_resource_name \in DOMAIN images
                            /\ images[image_resource_name].valid
                widths_ok == /\ widths_resource_name \in DOMAIN widths
                             /\ widths[widths_resource_name].valid
            IN  IF ~image_ok
                THEN WalkRaise(upg, "ResourceError") /\ UNCHANGED <<images, widths, i>>
                ELSE /\ images' = Put(images, image_resource_name,
                                      ExpandImage(images[image_resource_name],
                                                  new_image[1], new_image[2]))
                     /\ IF ~widths_ok
                        THEN /\ WalkRaise(WalkLog(<<Ev("image", i, 0)>>), "ResourceError")
                             /\ UNCHANGED <<widths, i>>
                        ELSE /\ widths' = Put(widths, widths_resource_name,
                                    [valid |-> TRUE,
                                     dict |-> ExpandWidths(widths[widths_resource_name].dict)])
                             /\ i' = i + 1
                             /\ IF i + 1 < Len(fonts)
                                THEN /\ upg' = WalkLog(<<Ev("image", i, 0), Ev("widths", i, 0)>>)
                                     /\ UNCHANGED <<pc, result>>
                                ELSE Recurse(WalkLog(<<Ev("image", i, 0), Ev("widths", i, 0)>>), 6)
    /\ UNCHANGED <<fonts, credits_font, table, mem, free, free0,
                   new_table_offset, calls, pass, prev, import>>

\* lines 211-216: the credits font comes from the ROM into the project
Upgrade_Credits ==
    /\ pc = "u_frame"
    /\ Branch(upg.old_version, upg.new_version) = "credits"
    /\ credits_font' = CreditsFromBlock(mem, CREDITS_GRAPHICS_ASM_POINTER,
                                        CREDITS_PALETTES_ADDRESS)
    /\ images' = Put(images, CreditsName, [valid |-> TRUE, id |-> credits_font'.gfx])
    /\ Recurse(WalkLog(<<Ev("credits_from_rom", upg.old_version, 0),
                         Ev("credits_to_project", upg.old_version, 0)>>),
               AfterCredits(upg.old_version))
    /\ UNCHANGED <<fonts, table, mem, free, free0, widths, i,
                   new_table_offset, calls, pass, prev, import>>

\* line 218 passing over a version
AdvanceVersionSkip(old_version) == old_version + 2

\* line 218: the version the nested call is made with
AdvanceVersion(old_version) == old_version + 1

\* lines 217-218
Upgrade_Advance ==
    /\ pc = "u_frame"
    /\ Branch(upg.old_version, upg.new_version) = "advance"
    /\ Recurse(upg, AdvanceVersion(upg.old_version))
    /\ UNCHANGED <<fonts, credits_font, table, mem, free, free0, images, widths, i,
                   new_table_offset, calls, pass, prev, import>>

-----------------------------------------------------------------------------

Next ==
    \/ WriteToRom_Begin
    \/ WriteToRom_Font
    \/ WriteToRom_Allocate
    \/ WriteToRom_Patch
    \/ WriteToRom_Store
    \/ WriteToRom_Credits
    \/ ResetAllocator
    \/ ReadFromProject_Begin
    \/ ReadFromProject_Base
    \/ ReadFromProject_Probe
    \/ ReadFromProject_Credits
    \/ ReadFromRom_Begin
    \/ ReadFromRom_Font
    \/ ReadFromRom_Credits

Spec == Init /\ [][Next]_vars

\* the projects a migration is run on: images drawn for 96 or for 128
\* characters, each kind of width file, with and without a sixth font and a
\* credits image, and two with a base resource that does not load
UpgradeProjects ==
    { ProjectOf(0..4, 0..4, {}, FALSE, 96, 1),
      ProjectOf(0..4, 0..4, {}, FALSE, 96, 2),
      ProjectOf(0..5, 0..5, {}, TRUE, 96, 3),
      ProjectOf(0..5, 0..5, {}, FALSE, 128, 2),
      ProjectOf({0, 1, 2, 4}, 0..4, {}, FALSE, 96, 2),
      ProjectOf(0..4, 0..4, {1}, FALSE, 96, 2) }

InitUpgrade ==
    /\ fonts = ConstructedFonts
    /\ credits_font = EbCreditsFont
    /\ table = NewTable
    /\ mem = OriginalRom
    /\ free0 = FREE_RANGES
    /\ \E p \in UpgradeProjects : images = p.images /\ widths = p.widths
    /\ free = free0
    /\ pc = "idle"
    /\ i = 0
    /\ new_table_offset = 0
    /\ result = "none"
    /\ calls = 0
    /\ pass = NoPass
    /\ prev = NoPass
    /\ import = NoImport
    /\ upg = NoWalk

NextUpgrade ==
    \/ Upgrade_Call
    \/ Upgrade_Return
    \/ Upgrade_Expand
    \/ Upgrade_ExpandFont
    \/ Upgrade_Credits
    \/ Upgrade_Advance
    \/ ReadFromProject_Begin
    \/ ReadFromProject_Base
    \/ ReadFromProject_Probe
    \/ ReadFromProject_Credits

SpecUpgrade == InitUpgrade /\ [][NextUpgrade]_vars

\* the projects one module instance is taken through all its operations on:
\* the base fonts alone, with two extra fonts, and one of the older layout
\* with one extra font
AllProjects ==
    { ProjectOf(0..4, 0..4, {}, TRUE, 128, 1),
      ProjectOf(0..6, 0..6, {}, TRUE, 128, 1),
      ProjectOf(0..5, 0..5, {}, FALSE, 96, 2) }

InitAll ==
    /\ fonts = ConstructedFonts
    /\ credits_font = EbCreditsFont
    /\ table = NewTable
    /\ mem = OriginalRom
    /\ free0 = FREE_RANGES \o <<ExpandedArea(\h100000)>>
    /\ \E p \in AllProjects : images = p.images /\ widths = p.widths
    /\ free = free0
    /\ pc = "idle"
    /\ i = 0
    /\ new_table_offset = 0
    /\ result = "none"
    /\ calls = 0
    /\ pass = NoPass
    /\ prev = NoPass
    /\ import = NoImport
    /\ upg = NoWalk

NextAll ==
    \/ WriteToRom_Begin
    \/ WriteToRom_Font
    \/ WriteToRom_Allocate
    \/ WriteToRom_Patch
    \/ WriteToRom_Store
    \/ WriteToRom_Credits
    \/ ResetAllocator
    \/ ReadFromProject_Begin
    \/ ReadFromProject_Base
    \/ ReadFromProject_Probe
    \/ ReadFromProject_Credits
    \/ ReadFromRom_Begin
    \/ ReadFromRom_Font
    \/ ReadFromRom_Credits
    \/ WriteToProject_Begin
    \/ WriteToProject_Font
    \/ WriteToProject_Credits
    \/ Upgrade_Call
    \/ Upgrade_Return
    \/ Upgrade_Expand
    \/ Upgrade_ExpandFont
    \/ Upgrade_Credits
    \/ Upgrade_Advance

SpecAll == InitAll /\ [][NextAll]_vars

-----------------------------------------------------------------------------
(* What a write pass did, read off its record *)

Events(e) == SelectSeq(pass.events, LAMBDA x : x.e = e)

\* the offset the table allocation of the pass returned
AllocatedTableOffset == Events("alloc")[1].b

\* where the pass stopped: the font index, -1 for the table, -2 for the credits font
FailedAt == pass.events[Len(pass.events)].a

InRanges(o, fr) == \E k \in 1..Len(fr) : fr[k][1] <= o /\ o <= fr[k][2]

\* the blocks of a ROM that lie outside the given ranges
Outside(m, fr) == [o \in {o \in DOMAIN m : ~InRanges(o, fr)} |-> m[o]]

\* row i (from 0) of the table stored at an offset, <<>> when it has no such row
StoredRow(m, offset, row) ==
    LET d == ReadAt(m, offset, "table")
    IN  IF 4 * (row + 1) <= Len(d) THEN SubSeq(d, 4 * row + 1, 4 * row + 4) ELSE <<>>

\* the row the pass owes font k (from 1): the addresses to_block returned for
\* it, its bytes per tile and its tile height
RecordedRow(k) ==
    <<to_snes_address(Events("font")[k].b),
      to_snes_address(Events("font")[k].a),
      (pass.fonts[k].tile_height * pass.fonts[k].tile_width) \div 8,
      pass.fonts[k].tile_height>>

-----------------------------------------------------------------------------
(* Claims about write_to_rom *)

\* C1: after a write pass that completed, the address at every reference's
\* patch site, translated to a linear offset, is the offset the table
\* allocation of the pass returned plus the reference's pointer_offset.
C1_ReferenceConsistency ==
    pass.state = "ok" =>
        \A k \in 1..NumRefs :
            from_snes_address(PointerRead(mem, FONT_POINTER_TABLE_REFERENCES[k])) =
                AllocatedTableOffset + FONT_POINTER_TABLE_REFERENCES[k].pointer_offset

C1_Witness ==
    /\ pass.state = "ok"
    /\ Len(pass.fonts) > 5
    /\ PointerRead(mem, FONT_POINTER_TABLE_REFERENCES[27]) =
           to_snes_address(AllocatedTableOffset) + 42

\* C3: a completed pass with more fonts than the loaded table had rows stores,
\* at the new offset, a table of exactly len(fonts) rows, and every row holds
\* the two addresses to_block returned for its font, then that font's bytes
\* per tile and tile height.
C3_TableGrowth ==
    (pass.state = "ok" /\ Len(pass.fonts) > pass.rows0) =>
        /\ AllocatedTableOffset \in DOMAIN mem
        /\ mem[AllocatedTableOffset].size = FONT_POINTER_TABLE_ENTRY_SIZE * Len(pass.fonts)
        /\ Len(ReadAt(mem, AllocatedTableOffset, "table")) = 4 * Len(pass.fonts)
        /\ \A k \in 1..Len(pass.fonts) :
               StoredRow(mem, AllocatedTableOffset, k - 1) = RecordedRow(k)

C3_Witness ==
    /\ pass.state = "ok"
    /\ pass.rows0 = 5
    /\ Len(pass.fonts) = 7
    /\ StoredRow(mem, AllocatedTableOffset, 6)[4] = 16

\* C6: a completed pass that follows a completed pass, with the same fonts
\* and the allocator reset to the ranges the earlier pass began with, leaves
\* the ROM as the earlier pass left it.
C6_RerunIdempotent ==
    ( /\ pass.state = "ok"
      /\ prev.state = "ok"
      /\ prev.fonts = pass.fonts
      /\ prev.credits = pass.credits
      /\ prev.free0 = pass.free0 ) => mem = pass.mem0

C6_Witness ==
    /\ pass.state = "ok"
    /\ prev.state = "ok"
    /\ prev.fonts = pass.fonts
    /\ prev.credits = pass.credits
    /\ prev.free0 = pass.free0
    /\ Len(pass.fonts) > pass.rows0 \/ Len(pass.fonts) > 5
    /\ pass.mem0 # OriginalRom

\* C7 as claimed: when the allocation for a font or for the table fails, the
\* error reaches the caller and the ROM is as it was before the pass.
C7_RomUnmodifiedOnFailure ==
    (pass.state = "failed" /\ pass.n = calls /\ FailedAt >= -1) =>
        /\ pc = "idle"
        /\ result = "AllocationError"
        /\ mem = pass.mem0

\* C7 as amended: when the allocation for a font or for the table fails, the
\* error reaches the caller, no reference has been patched, and no block
\* outside the ranges that were free when the pass began has changed; the
\* ROM is as it was before the pass when no font had been written yet.
C7_FailureLeavesRestOfRom ==
    (pass.state = "failed" /\ pass.n = calls /\ FailedAt >= -1) =>
        /\ pc = "idle"
        /\ result = "AllocationError"
        /\ Len(Events("patch")) = 0
        /\ Outside(mem, pass.free0) = Outside(pass.mem0, pass.free0)
        /\ Len(Events("font")) = 0 => mem = pass.mem0

C7_Witness ==
    /\ pass.state = "failed"
    /\ pass.n = calls
    /\ FailedAt = -1
    /\ mem # pass.mem0

\* C8: whenever a pass has stopped on an allocation failure, either no
\* reference or every reference has been patched, and when every reference
\* has been patched the table is stored at the address they hold.
C8_AllOrNothingPatching ==
    pass.state = "failed" =>
        /\ Len(Events("patch")) \in {0, NumRefs}
        /\ Len(Events("patch")) = NumRefs =>
               /\ Len(Events("store")) = 1
               /\ ReadAt(mem, from_snes_address(
                            PointerRead(mem, FONT_POINTER_TABLE_REFERENCES[1])), "table")
                      = Flatten([k \in 1..Len(pass.fonts) |-> RecordedRow(k)])

C8_Witness ==
    /\ pass.state = "failed"
    /\ FailedAt = -2
    /\ Len(Events("patch")) = NumRefs

-----------------------------------------------------------------------------
(* Claims about read_from_project *)

\* the smallest index from 5 whose image or width file does not load,
\* MAX_FONT_INDEX when every one below it loads
FirstMissing ==
    IF \A n \in 5..(MAX_FONT_INDEX - 1) : Loadable(images, widths, Str(n))
    THEN MAX_FONT_INDEX
    ELSE CHOOSE k \in 5..(MAX_FONT_INDEX - 1) :
            /\ ~Loadable(images, widths, Str(k))
            /\ \A n \in 5..(k - 1) : Loadable(images, widths, Str(n))

\* C4: once the discovery loop of read_from_project on a freshly constructed
\* module is over, the fonts appended are those of the indices 5..k-1 in
\* increasing order, k the first index that does not load (64 when all do),
\* and no index above k was probed.
C4_DiscoveryStopsAtGap ==
    (import.n = calls /\ import.fonts0 = 5 /\ import.stage \in {"credits", "done"}) =>
        /\ Len(fonts) = FirstMissing
        /\ \A n \in 5..(FirstMissing - 1) :
               fonts[n + 1] = FontFromFiles(EbFont(128, 16, 16), images, widths, Str(n))
        /\ import.probed = [k \in 1..Len(import.probed) |-> 4 + k]
        /\ \A k \in 1..Len(import.probed) : import.probed[k] <= FirstMissing
        /\ Len(import.probed) =
               IF FirstMissing < MAX_FONT_INDEX THEN FirstMissing - 4 ELSE MAX_FONT_INDEX - 5

C4_Witness ==
    /\ import.n = calls
    /\ import.fonts0 = 5
    /\ import.stage = "done"
    /\ FirstMissing = 5
    /\ Loadable(images, widths, "6")
    /\ Len(fonts) = 5
    /\ import.probed = <<5>>

C4_WitnessAll ==
    /\ import.n = calls
    /\ import.fonts0 = 5
    /\ import.stage = "done"
    /\ FirstMissing = MAX_FONT_INDEX
    /\ Len(fonts) = MAX_FONT_INDEX
    /\ Loadable(images, widths, "64")

-----------------------------------------------------------------------------
(* Claims about upgrade_project *)

\* the events of one kind in the walk's log
WalkEvents(e) == SelectSeq(upg.log, LAMBDA x : x.e = e)

\* C2: a migration called with old_version <= new_version never enters a
\* version above new_version, never runs out of nested calls, and returns
\* only from the frame whose version is new_version.
C2_WalkEndsAtTarget ==
    upg.state # "idle" =>
        /\ \A k \in 1..Len(upg.visited) : upg.visited[k] <= upg.new_version
        /\ upg.state # "RecursionError"
        /\ upg.state = "returned" => upg.old_version = upg.new_version

\* C5: every width file the version-5 step has rewritten holds every
\* character of 96..127, the characters it held before with the widths they
\* had, and 0 for the characters of 96..127 it did not hold; a walk that
\* got past version 5 has rewritten the width files of the five base fonts.
C5_WidthsExpanded ==
    /\ \A k \in 1..Len(upg.log) :
          upg.log[k].e = "widths" =>
              LET name == WidthsName(FONT_FILENAMES[upg.log[k].a + 1])
                  before == upg.before5.widths[name].dict
                  after == widths[name].dict
              IN  /\ DOMAIN after = DOMAIN before \cup 96..127
                  /\ \A c \in DOMAIN before : after[c] = before[c]
                  /\ \A c \in 96..127 \ DOMAIN before : after[c] = 0
    /\ (\E k \in 1..Len(upg.visited) : upg.visited[k] = 5 /\ k < Len(upg.visited)) =>
           {x.a : x \in {upg.log[k] : k \in {k \in 1..Len(upg.log) : upg.log[k].e = "widths"}}}
               = 0..4

C5_Witness ==
    /\ upg.state = "returned"
    /\ upg.first <= 5
    /\ upg.new_version > 5
    /\ 96 \in DOMAIN upg.before5.widths[WidthsName("0")].dict
    /\ 97 \notin DOMAIN upg.before5.widths[WidthsName("0")].dict
    /\ widths[WidthsName("0")].dict[96] = 4
    /\ widths[WidthsName("0")].dict[97] = 0

\* C9: a migration called with the same version twice does nothing but
\* return: it enters no other frame and no loop, raises nothing, reads and
\* writes no resource and no ROM, and leaves the fonts and the credits font
\* as they were.
C9_SameVersionNoEffect ==
    (upg.state # "idle" /\ upg.n = calls /\ upg.first = upg.new_version) =>
        /\ upg.state \in {"running", "returned"}
        /\ pc \in {"u_frame", "idle"}
        /\ pc = "idle" <=> upg.state = "returned"
        /\ upg.visited = <<upg.first>>
        /\ upg.depth = 0
        /\ upg.log = <<>>
        /\ upg.before5 = <<>>
        /\ fonts = upg.start.fonts
        /\ credits_font = upg.start.credits_font
        /\ images = upg.start.images
        /\ widths = upg.start.widths
        /\ mem = OriginalRom

C9_Witness ==
    /\ upg.state = "returned"
    /\ upg.n = calls
    /\ upg.first = 5
    /\ upg.new_version = 5
    /\ images[ImageName("0")].h = 96
    /\ CreditsName \notin DOMAIN images

\* C10: a migration from a version up to 2 to a version from 3 up begins by
\* reading the credits font from the ROM and writing it to the project, does
\* so once, before every font expansion, and goes on at version 3.
C10_CreditsOnceThenThree ==
    (upg.state # "idle" /\ upg.first <= 2 /\ upg.new_version >= 3
        /\ (upg.depth >= 1 \/ upg.state # "running")) =>
        /\ Len(upg.visited) >= 2
        /\ upg.visited[2] = 3
        /\ Len(upg.log) >= 2
        /\ upg.log[1] = Ev("credits_from_rom", upg.first, 0)
        /\ upg.log[2] = Ev("credits_to_project", upg.first, 0)
        /\ Len(WalkEvents("credits_from_rom")) = 1
        /\ Len(WalkEvents("credits_to_project")) = 1
        /\ upg.n = calls =>
               /\ credits_font = CreditsFromBlock(mem, CREDITS_GRAPHICS_ASM_POINTER,
                                                  CREDITS_PALETTES_ADDRESS)
               /\ CreditsName \in DOMAIN images
               /\ images[CreditsName] = [valid |-> TRUE, id |-> credits_font.gfx]

C10_Witness ==
    /\ upg.state = "returned"
    /\ upg.first = 0
    /\ upg.new_version = MaxVersion
    /\ Len(WalkEvents("image")) = 5
    /\ Len(WalkEvents("credits_to_project")) = 1
    /\ CreditsName \notin DOMAIN upg.start.images

\* a step taken by a frame whose version is above 2, not 5 and not the target
\* leaves the ROM, the project, the fonts and the credits font alone, does
\* nothing the walk records, and enters the frame of the next version, unless
\* the interpreter allows no further nested call
NoOpVersionStep ==
    (pc = "u_frame" /\ upg.old_version > 2 /\ upg.old_version # 5
        /\ upg.old_version # upg.new_version) =>
        /\ UNCHANGED <<mem, images, widths, fonts, credits_font, free>>
        /\ upg'.log = upg.log
        /\ upg'.before5 = upg.before5
        /\ \/ /\ upg'.state = "running"
              /\ pc' = "u_frame"
              /\ upg'.old_version = upg.old_version + 1
              /\ upg'.visited = Append(upg.visited, upg.old_version + 1)
           \/ /\ upg'.state = "RecursionError"
              /\ upg.depth >= MaxDepth

\* the versions a walk entered go up strictly, and it expanded each base
\* font at most once
WalkGoesForward ==
    /\ \A k \in 1..(Len(upg.visited) - 1) : upg.visited[k] < upg.visited[k + 1]
    /\ \A f \in 0..4 :
          /\ Len(SelectSeq(upg.log, LAMBDA x : x.e = "image" /\ x.a = f)) <= 1
          /\ Len(SelectSeq(upg.log, LAMBDA x : x.e = "widths" /\ x.a = f)) <= 1
    /\ Len(SelectSeq(upg.visited, LAMBDA v : v = 5)) <= 1

\* C11: every version above 2 that is neither 5 nor the target is passed
\* without reading the ROM and without reading, writing or deleting a
\* project resource, by a nested call with the version plus one; so the
\* versions visited go up strictly and the expansion runs at most once.
C11_NoOpVersionsAdvance == [][NoOpVersionStep]_vars /\ []WalkGoesForward

C11_Witness ==
    /\ upg.state = "returned"
    /\ upg.visited = <<3, 4, 5, 6, 7>>
    /\ Len(WalkEvents("image")) = 5
    /\ Len(WalkEvents("widths")) = 5

\* C12: every image the version-5 step has rewritten has the size of the
\* font's 128-character image; where the image it replaced had a pixel, it
\* has that pixel, and everywhere else it has palette index 1; a walk that
\* got past version 5 has rewritten the images of the five base fonts.
C12_ImageExpanded ==
    /\ \A k \in 1..Len(upg.log) :
          upg.log[k].e = "image" =>
              LET name == ImageName(FONT_FILENAMES[upg.log[k].a + 1])
                  before == upg.before5.images[name]
                  after == images[name]
                  font == fonts[upg.log[k].a + 1]
              IN  /\ font.num_characters = 128
                  /\ after.w = 16 * font.tile_width
                  /\ after.h = 8 * font.tile_height
                  /\ DOMAIN after.px = Lattice(after.w, after.h)
                  /\ \A p \in DOMAIN after.px :
                        after.px[p] = IF p[1] < before.w /\ p[2] < before.h
                                      THEN before.px[p] ELSE 1
    /\ (\E k \in 1..Len(upg.visited) : upg.visited[k] = 5 /\ k < Len(upg.visited)) =>
           {upg.log[k].a : k \in {k \in 1..Len(upg.log) : upg.log[k].e = "image"}} = 0..4

C12_Witness ==
    /\ upg.state = "returned"
    /\ upg.new_version > 5
    /\ upg.before5 # <<>>
    /\ upg.before5.images[ImageName("4")].h = 48
    /\ upg.before5.images[ImageName("4")].px[<<0, 0>>] = 0
    /\ upg.before5.images[ImageName("4")].px[<<0, 16>>] = 1
    /\ images[ImageName("4")].h = 64
    /\ images[ImageName("4")].px[<<0, 0>>] = 0
    /\ images[ImageName("4")].px[<<0, 16>>] = 1
    /\ images[ImageName("4")].px[<<0, 48>>] = 1
    /\ images[ImageName("4")].px[<<64, 48>>] = 1

-----------------------------------------------------------------------------
(* Claims about the order of a write pass *)

\* once a reference is patched, no step of the pass touches the table's rows
RowsStayAfterPatch ==
    (pass.state = "running" /\ Len(Events("patch")) > 0) => table' = table

\* every row assignment of the pass comes before every patch
RowsBeforePatches ==
    \A j, k \in 1..Len(pass.events) :
        (pass.events[j].e = "row" /\ pass.events[k].e = "patch") => j < k

\* C13: in a write pass the first reference is patched after the last
\* assignment to a row, and no row changes from the first patch to the end
\* of the pass.
C13_RowsFinalBeforeRelocation == [][RowsStayAfterPatch]_vars /\ []RowsBeforePatches

C13_Witness ==
    /\ pass.state = "ok"
    /\ Len(Events("row")) = 5 + MaxExtra
    /\ Len(Events("patch")) = NumRefs
    /\ \A k \in 1..Len(pass.fonts) : table.values[k] = RecordedRow(k)

\* C14: in a write pass the table is stored at its new offset before the
\* first reference is patched, so a patched reference never holds the address
\* of a table whose rows are not there yet.
C14_TableStoredBeforePatch ==
    (pass.n = calls /\ pass.state \in {"running", "ok"} /\ Len(Events("patch")) > 0) =>
        /\ \A k \in 1..Len(pass.events) :
              pass.events[k].e = "patch" =>
                  \E j \in 1..(k - 1) : pass.events[j].e = "store"
        /\ \A r \in 1..NumRefs :
              PointerRead(mem, FONT_POINTER_TABLE_REFERENCES[r]) =
                  (PatchAddress(AllocatedTableOffset)
                       + FONT_POINTER_TABLE_REFERENCES[r].pointer_offset) % (2 ^ 24)
              => ReadAt(mem, AllocatedTableOffset, "table") =
                     Flatten(SubSeq(table.values, 1, table.num_rows))

\* C15: after a completed pass the stored row of every font is the banked
\* address of its widths, the banked address of its tileset, its bytes per
\* tile and its tile height, in that order; and the two fields read_from_rom
\* takes from such a row lead to the font's tileset and widths.
C15_RowContents ==
    pass.state = "ok" =>
        \A k \in 1..Len(pass.fonts) :
            LET row == StoredRow(mem, AllocatedTableOffset, k - 1)
                font == pass.fonts[k]
            IN  /\ Len(row) = 4
                /\ row[1] = to_snes_address(Events("font")[k].b)
                /\ row[2] = to_snes_address(Events("font")[k].a)
                /\ row[3] = (font.tile_height * font.tile_width) \div 8
                /\ row[4] = font.tile_height
                /\ TilesetOffsetOf(row) = Events("font")[k].a
                /\ WidthsOffsetOf(row) = Events("font")[k].b
                /\ ReadAt(mem, TilesetOffsetOf(row), "tileset") # <<>>
                /\ ReadAt(mem, WidthsOffsetOf(row), "widths") # <<>>
                /\ FontFromBlock(font, mem, TilesetOffsetOf(row), WidthsOffsetOf(row)) = font

C15_Witness ==
    /\ pass.state = "ok"
    /\ pass.rows0 = 5
    /\ Len(pass.fonts) = 5
    /\ StoredRow(mem, AllocatedTableOffset, 3)[3] = 8
    /\ StoredRow(mem, AllocatedTableOffset, 3)[4] = 8
    /\ StoredRow(mem, AllocatedTableOffset, 2)[3] = 16
    /\ pass.fonts[1].gfx # 0

\* the places in the pass's record of the events of one kind
Places(e) == {k \in 1..Len(pass.events) : pass.events[k].e = e}

\* the table is allocated at most once and, in a completed pass, once, with
\* 12 bytes a font, after every font and before every patch, and every
\* reference patched so far holds the address of that one offset
TableAllocatedOnce ==
    /\ Len(Events("alloc")) <= 1
    /\ pass.state = "ok" => Len(Events("alloc")) = 1
    /\ \A k \in Places("alloc") :
          /\ pass.events[k].a = FONT_POINTER_TABLE_ENTRY_SIZE * Len(pass.fonts)
          /\ Len(Events("font")) = Len(pass.fonts)
          /\ \A j \in Places("font") : j < k
          /\ \A j \in Places("patch") : k < j
    /\ Places("patch") # {} => Places("alloc") # {}
    /\ (pass.n = calls /\ pass.state \in {"running", "ok"}) =>
          \A j \in Places("patch") :
              PointerRead(mem, FONT_POINTER_TABLE_REFERENCES[pass.events[j].a + 1]) =
                  (to_snes_address(AllocatedTableOffset)
                     + FONT_POINTER_TABLE_REFERENCES[pass.events[j].a + 1].pointer_offset)
                  % (2 ^ 24)

\* C16 as stated: the table is allocated once, as above, and nothing is
\* allocated in the pass after it.
C16_TableAllocationIsLast ==
    /\ TableAllocatedOnce
    /\ \A k \in Places("alloc") :
          \A j \in Places("credits") \cup Places("fail") : j < k

\* C16: the table is allocated once, as above; the one allocation the pass
\* makes after it is that of the credits font, once the references are
\* patched and the table is stored.
C16_SingleTableAllocation ==
    /\ TableAllocatedOnce
    /\ \A k \in Places("credits") :
          /\ Places("alloc") # {} /\ Places("store") # {}
          /\ \A j \in Places("alloc") \cup Places("patch") \cup Places("store") : j < k
          /\ Len(Events("patch")) = NumRefs

C16_Witness ==
    /\ pass.state = "ok"
    /\ Len(pass.fonts) = 5 + MaxExtra
    /\ Events("alloc")[1].a = FONT_POINTER_TABLE_ENTRY_SIZE * (5 + MaxExtra)
    /\ Len(Events("credits")) = 1
    /\ Len(Events("font")) = 5 + MaxExtra

-----------------------------------------------------------------------------
(* Claims about failures while reading a project *)

\* a probe of an extra font that does not load appends nothing, raises
\* nothing and ends the probing: the credits font is next
FailedProbeStep ==
    (pc = "p_probe" /\ ~Loadable(images, widths, Str(i))) =>
        /\ 5 <= i /\ i < MAX_FONT_INDEX
        /\ fonts' = fonts
        /\ pc' = "p_credits"
        /\ result' = "running"
        /\ import'.probed = Append(import.probed, i)

\* a base font that does not load ends read_from_project with the error
FailedBaseStep ==
    (pc = "p_base" /\ i < Len(FONT_FILENAMES)
        /\ ~Loadable(images, widths, FONT_FILENAMES[i + 1])) =>
        /\ pc' = "idle"
        /\ result' = "ResourceError"
        /\ fonts' = fonts

\* an import that got through its base fonts went on to the credits font,
\* whatever the probing met: it ends with the credits font loaded from the
\* project, or with the error of a credits image that does not load
CreditsAfterDiscovery ==
    (import.n = calls /\ import.stage = "done") =>
        IF CreditsName \in DOMAIN images /\ images[CreditsName].valid
        THEN result = "ok" /\ credits_font = [gfx |-> images[CreditsName].id]
        ELSE result = "ResourceError"

\* C17: a failure to open or parse the image or the widths of a probed extra
\* font does not reach the caller: the font is not appended, the probing
\* stops and the credits font is loaded; a failure on a base font does reach
\* the caller.
C17_DiscoveryFailureIsNoError ==
    [][FailedProbeStep /\ FailedBaseStep]_vars /\ []CreditsAfterDiscovery

C17_Witness ==
    /\ import.n = calls
    /\ import.stage = "done"
    /\ result = "ok"
    /\ import.fonts0 = 5
    /\ import.probed = <<5, 6>>
    /\ Len(fonts) = 6
    /\ ImageName("6") \in DOMAIN images
    /\ ~Loadable(images, widths, "6")
    /\ credits_font = [gfx |-> 2]

-----------------------------------------------------------------------------
(* Claims about reading back what was written *)

\* C18: when read_from_rom has gone through the fonts of a ROM that a
\* completed write pass left, it has taken every base font from the tileset
\* and widths offsets that pass recorded for it, and so has the font the
\* pass wrote.
C18_ReadDecodesWrittenFonts ==
    (pc = "r_credits" /\ pass.state = "ok") =>
        \A k \in 1..5 :
            /\ TilesetOffsetOf(table.values[k]) = Events("font")[k].a
            /\ WidthsOffsetOf(table.values[k]) = Events("font")[k].b
            /\ fonts[k] = pass.fonts[k]

-----------------------------------------------------------------------------
(* Claims about the number of fonts *)

\* C19: during and after read_from_project on a freshly constructed module
\* there are at least 5 and at most 64 fonts; once the base fonts are read,
\* the first five are the base fonts in the order they were constructed in,
\* the others are the extra fonts by increasing index, and no index from 64
\* up was probed.
C19_FontCountBound ==
    (import.n = calls /\ import.fonts0 = 5) =>
        /\ 5 <= Len(fonts) /\ Len(fonts) <= MAX_FONT_INDEX
        /\ \A k \in 1..Len(import.probed) :
              /\ 5 <= import.probed[k] /\ import.probed[k] < MAX_FONT_INDEX
              /\ k > 1 => import.probed[k - 1] < import.probed[k]
        /\ import.stage \in {"probe", "credits", "done"} =>
              /\ \A k \in 1..5 :
                    fonts[k] = FontFromFiles(ConstructedFonts[k], images, widths,
                                             FONT_FILENAMES[k])
              /\ \A k \in 6..Len(fonts) :
                    fonts[k] = FontFromFiles(EbFont(128, 16, 16), images, widths, Str(k - 1))

C19_Witness ==
    /\ import.n = calls
    /\ import.fonts0 = 5
    /\ import.stage = "done"
    /\ Len(fonts) = MAX_FONT_INDEX
    /\ Len(import.probed) = MAX_FONT_INDEX - 5
    /\ import.probed[Len(import.probed)] = MAX_FONT_INDEX - 1
    /\ ImageName(Str(MAX_FONT_INDEX)) \in DOMAIN images
    /\ fonts[3].tile_width = 8
    /\ fonts[MAX_FONT_INDEX].gfx = 10 + (MAX_FONT_INDEX - 1)

-----------------------------------------------------------------------------
(* Claims about the base font names *)

\* C20: whatever operations one module instance is taken through, none of
\* them ends with an index error: FONT_FILENAMES is never looked up past
\* its five names.
C20_NoIndexError ==
    /\ result # "IndexError"
    /\ upg.state # "IndexError"

====
